---- MODULE Spec2Model ----
(***************************************************************************)
(* Ducttape (dht/Ducttape.c): the junction between the switch, the outer   *)
(* (router-to-router) CryptoAuth sessions, the inner (content) session     *)
(* manager, the DHT registry, the router module and the TUN device.        *)
(*                                                                         *)
(* Every callback of the module is one action.  The collaborators that     *)
(* call back into it (the outer session, the content session) are the      *)
(* environment: after the module hands them a message, `pc' says which of  *)
(* them holds it, and the environment picks the callback they invoke.      *)
(* `events' is the trace of the calls the module made to its collaborators *)
(* during the current entry-point invocation.                              *)
(***************************************************************************)
EXTENDS Integers, Sequences, FiniteSets, TLC

VARIABLES
    context,    \* struct Context: the fields the packet path reads and writes
    message,    \* struct Message in flight: header in the buffer, length, content
    pc,         \* who holds the message: idle, outerRecv, innerRecv, innerSend, done
    entry,      \* entry point of the current invocation: switch, tun, dht
    outcome,    \* error code returned by the innermost handler that finished
    events      \* calls made to the collaborators during this invocation

vars == <<context, message, pc, entry, outcome, events>>

-----------------------------------------------------------------------------
(* Bounds of the model *)

\* hop limits of injected packets range over 0..MaxHop
MaxHop == 1
\* content lengths (bytes after the UDP header) range over 0..MaxLen
MaxLen == 0
\* the content session may answer a receive with a reply at most MaxInner times
MaxInner == 1

-----------------------------------------------------------------------------
(* Constants of the program *)

\* first byte of every address of the network
FC == 252
\* ip6 next header value of UDP
UDP == 17
\* hop limit handleOutgoing gives router-to-router messages
DHT_HOP_LIMIT == 1
Headers_IP6Header_SIZE == 40
Headers_UDPHeader_SIZE == 8
\* bytes the content session puts between the ip6 header and the content
Headers_CryptoAuth_SIZE == 4

Error_NONE == "NONE"
Error_INVALID == "INVALID"
Error_UNDELIVERABLE == "UNDELIVERABLE"
\* a code of the session itself, when it neither delivers nor emits
Error_SESSION == "SESSION"

NULL == [null |-> TRUE]
\* a pointer whose target (a stack frame, the message buffer) is gone
Dangling == [dangling |-> TRUE]
\* content that is ciphertext to this node
Opaque == [opaque |-> TRUE]

-----------------------------------------------------------------------------
(* Keys, addresses and labels *)

ZeroKey == "K0"
MyKey == "KMe"
PeerKeys == {"KA", "KB", "KX"}
Keys == PeerKeys \cup {MyKey}

\* Address_getPrefix: the ip6 address is a hash of the key; <<first byte, rest>>.
\* KX is a key whose hash falls outside fc00::/8.
Address_getPrefix(key) ==
    CASE key = "KMe" -> <<FC, 0>>
      [] key = "KA"  -> <<FC, 1>>
      [] key = "KB"  -> <<FC, 2>>
      [] key = "KX"  -> <<18, 3>>
      [] OTHER       -> <<77, 9>>

Ip6Addrs == {Address_getPrefix(k) : k \in Keys}
\* addresses the model's packets carry as source and as destination
SourceAddrs == {Address_getPrefix(k) : k \in {"KMe", "KA", "KX"}}
DestAddrs == {Address_getPrefix(k) : k \in {"KMe", "KB", "KX"}}

\* A 64 bit label is the set of the positions of its one-bits.
Bits_bitReverse64(label) == {63 - i : i \in label}

Labels == {{0}, {63}}

\* struct Address
Address(key, ip6, label) == [key |-> key, ip6 |-> ip6, networkAddress |-> label]

\* The nodes the router module and the DHT may name.
NodeAddresses == {Address(k, Address_getPrefix(k), l) : k \in Keys, l \in Labels}

-----------------------------------------------------------------------------
(* Messages *)

IP6Header(src, dst, hop, nh, plen) ==
    [sourceAddr |-> src, destinationAddr |-> dst, hopLimit |-> hop,
     nextHeader |-> nh, payloadLength |-> plen]

\* content behind the content session's header: a UDP header and n bytes
Content(ports, udpLength, checksum, n) ==
    [sourceAndDestPorts |-> ports, length |-> udpLength,
     checksum |-> checksum, n |-> n]

\* struct Message, aligned where the current handler expects it: `ip6' is the
\* header at (or in front of) the window, `length' the length of the window.
Message(ip6, length, content) == [ip6 |-> ip6, length |-> length, content |-> content]

NoMessage == [none |-> TRUE]

Message_shift(m, amount) == [m EXCEPT !.length = m.length + amount]

ContentLens == 0..MaxLen
HopLimits == 0..MaxHop

\* lengths of a packet [ip6 | crypto header | udp | n bytes]
PacketLength(n) ==
    Headers_IP6Header_SIZE + Headers_CryptoAuth_SIZE + Headers_UDPHeader_SIZE + n

\* the model's packets have at most one defect: a source or a destination
\* outside fc00::/8, or a payload length that is off by `off'
Defects(s, d, off) ==
    (IF s[1] # FC THEN 1 ELSE 0) + (IF d[1] # FC THEN 1 ELSE 0) + off

\* packets an outer session may hand up after decryption
WirePackets ==
    {Message(IP6Header(x[1], x[2], h, nh,
                       PacketLength(n) - Headers_IP6Header_SIZE + x[3]),
             PacketLength(n), Opaque) :
        x \in {y \in SourceAddrs \X DestAddrs \X {0, 1} : Defects(y[1], y[2], y[3]) <= 1},
        h \in HopLimits, nh \in {UDP, 6}, n \in ContentLens}

-----------------------------------------------------------------------------
(* What a handler leaves behind: the context, the message, who holds the     *)
(* message next, the code it returned, the calls it made.                    *)

Result(c, m, p, o, ev) == [c |-> c, m |-> m, pc |-> p, outcome |-> o, ev |-> ev]

-----------------------------------------------------------------------------
(* The session table: InterfaceMap keyed by label, sessions of the outer     *)
(* CryptoAuth layer.  An entry keeps the session's identity and the peer key *)
(* the session is bound to (ZeroKey until a responder learns it).            *)

InterfaceMap_indexOf(label, ifMap) ==
    IF \E i \in 1..Len(ifMap) : ifMap[i].label = label
    THEN CHOOSE i \in 1..Len(ifMap) :
            /\ ifMap[i].label = label
            /\ \A j \in 1..(i - 1) : ifMap[j].label # label
    ELSE 0

InterfaceMap_put(label, iface, ifMap) ==
    Append(ifMap, [label |-> label, id |-> iface.id, herPublicKey |-> iface.herPublicKey])

\* a new session object; `key' is ZeroKey where the code passes NULL
CryptoAuth_wrapInterface(key, ifMap) == [id |-> Len(ifMap) + 1, herPublicKey |-> key]

CryptoAuth_getHerPublicKey(index, ifMap) == ifMap[index].herPublicKey

\* a lookup that never finds the session it made before
getCaSession_AlwaysNew(header, key, c) ==
    [c |-> [c EXCEPT !.ifMap =
               InterfaceMap_put(header.label,
                                CryptoAuth_wrapInterface(key, c.ifMap),
                                c.ifMap)],
     index |-> Len(c.ifMap) + 1]

getCaSession(header, key, c) ==
    LET index == InterfaceMap_indexOf(header.label, c.ifMap)
    IN  IF index > 0
        THEN [c |-> c, index |-> index]
        ELSE [c |-> [c EXCEPT !.ifMap =
                        InterfaceMap_put(header.label,
                                         CryptoAuth_wrapInterface(key, c.ifMap),
                                         c.ifMap)],
              index |-> Len(c.ifMap) + 1]

-----------------------------------------------------------------------------
(* Toward the switch *)

sendToSwitch(m, destinationSwitchHeader, c) ==
    [type |-> "switch", label |-> destinationSwitchHeader.label,
     ip6 |-> m.ip6, length |-> m.length, content |-> m.content]

sendToSwitchFromCryptoAuth(m, c) == sendToSwitch(m, c.switchHeader, c)

\* session->sendMessage: the outer session encrypts and calls its outer
\* interface, sendToSwitchFromCryptoAuth, once.
OuterSessionSend(index, m, c) ==
    << [type |-> "outerSend", session |-> c.ifMap[index].id,
        herPublicKey |-> c.ifMap[index].herPublicKey,
        label |-> c.ifMap[index].label],
       sendToSwitchFromCryptoAuth(m, c) >>

sendToRouter(sendTo, m, c) ==
    LET header == [label |-> sendTo.networkAddress]
        c1 == [c EXCEPT !.switchHeader = header]
        got == getCaSession(header, sendTo.key, c1)
    IN  Result(got.c, m, "done", Error_NONE,
               <<[type |-> "sendToRouter", sendTo |-> sendTo, ip6 |-> m.ip6]>>
               \o OuterSessionSend(got.index, m, got.c))

-----------------------------------------------------------------------------
(* The dispatcher *)

\* a validity check that forgets the destination
validIP6_SourceOnly(m) ==
    /\ m.ip6.sourceAddr[1] = FC
    /\ m.ip6.payloadLength = m.length - Headers_IP6Header_SIZE

validIP6(m) ==
    /\ m.ip6.sourceAddr[1] = FC
    /\ m.ip6.destinationAddr[1] = FC
    /\ m.ip6.payloadLength = m.length - Headers_IP6Header_SIZE

isForMe(m, c) == m.ip6.destinationAddr = c.myAddr.ip6

\* the content session is found by the ip6 address in front of the content
SessionManager_getSession(m) == [ip6 |-> m.ip6.sourceAddr]

\* a dispatcher that forwards whatever the hop limit
hopLimitExceeded_Never(ip6) == FALSE

hopLimitExceeded(ip6) == ip6.hopLimit = 0

\* a dispatcher that decrements twice
decrementHopLimit_Twice(ip6) == [ip6 EXCEPT !.hopLimit = (ip6.hopLimit - 2) % 256]

\* a dispatcher that forgets to decrement
decrementHopLimit_Forgotten(ip6) == ip6

decrementHopLimit(ip6) == [ip6 EXCEPT !.hopLimit = (ip6.hopLimit - 1) % 256]

\* a forwarding step that leaves forwardTo as it found it
takeForwardTo_Kept(c) == c

\* the forwarding step consumes forwardTo
takeForwardTo(c) == [c EXCEPT !.forwardTo = NULL]

decryptedIncoming(m, c0, best) ==
    LET c == [c0 EXCEPT !.ip6Header = m.ip6]
        seen == <<[type |-> "decryptedIncoming", ip6 |-> m.ip6, length |-> m.length]>>
    IN  IF ~validIP6(m)
        THEN Result(c, m, "done", Error_INVALID, seen)
        ELSE IF isForMe(m, c)
        THEN Result([c EXCEPT !.contentSession = SessionManager_getSession(m)],
                    Message_shift(m, -Headers_IP6Header_SIZE),
                    "innerRecv", Error_NONE,
                    seen \o <<[type |-> "contentReceive", ip6 |-> m.ip6]>>)
        ELSE IF hopLimitExceeded(c.ip6Header)
        THEN Result(c, m, "done", Error_UNDELIVERABLE, seen)
        ELSE
        LET ip6 == decrementHopLimit(m.ip6)
            m1 == [m EXCEPT !.ip6 = ip6]
            c1 == [c EXCEPT !.ip6Header = ip6]
        IN  IF c1.forwardTo # NULL
            THEN LET r == sendToRouter(c1.forwardTo, m1, takeForwardTo(c1))
                 IN  [r EXCEPT !.ev = seen \o r.ev]
            ELSE
            LET asked == seen \o <<[type |-> "getBest",
                                    target |-> c1.ip6Header.destinationAddr,
                                    nextBest |-> best]>>
            IN  IF best # NULL
                THEN LET r == sendToRouter(best, m1, c1)
                     IN  [r EXCEPT !.ev = asked \o r.ev]
                ELSE Result(c1, m1, "done", Error_UNDELIVERABLE, asked)

-----------------------------------------------------------------------------
(* Delivery to this node *)

\* a handoff after which the message goes on to the TUN as well
incomingDHT_AndTun(m, addr, c) ==
    Result(c, m, "done", Error_NONE,
           <<[type |-> "dht", address |-> addr, ip6 |-> c.ip6Header,
              length |-> m.length, content |-> m.content],
             [type |-> "tun", ip6 |-> c.ip6Header,
              length |-> m.length, content |-> m.content]>>)

incomingDHT(m, addr, c) ==
    Result(c, m, "done", Error_NONE,
           <<[type |-> "dht", address |-> addr, ip6 |-> c.ip6Header,
              length |-> m.length, content |-> m.content]>>)

\* a detector that never finds router traffic
isRouterTraffic_Never(m, ip6) == FALSE

\* a detector that looks at the UDP header only
isRouterTraffic_AnyHopLimit(m, ip6) ==
    /\ m.content.sourceAndDestPorts = 0
    /\ m.content.length = m.length - Headers_UDPHeader_SIZE

\* m is aligned on the beginning of the content
isRouterTraffic(m, ip6) ==
    IF ip6.nextHeader # UDP \/ ip6.hopLimit # 0
    THEN FALSE
    ELSE /\ m.content.sourceAndDestPorts = 0
         /\ m.content.length = m.length - Headers_UDPHeader_SIZE

\* a receive path that does not compare the addresses
sourceIsKeyAddress_Unchecked(addr, ip6) == TRUE

\* a receive path that compares the first byte only
sourceIsKeyAddress_PrefixOnly(addr, ip6) == addr.ip6[1] = ip6.sourceAddr[1]

\* the address derived from the session's key is the packet's source address
sourceIsKeyAddress(addr, ip6) == addr.ip6 = ip6.sourceAddr

\* key: the peer key of context->contentSession.
\* ub: context->switchHeader->label_be is read through a null pointer when
\* handleOutgoing started the invocation; the read either ends the process
\* (ub = NULL) or yields some header (ub = that header).
incomingForMe(m, key, c, ub) ==
    LET called == <<[type |-> "incomingForMe", key |-> key, ip6 |-> c.ip6Header,
                     length |-> m.length, content |-> m.content]>>
    IN
    IF c.switchHeader = NULL /\ ub = NULL
    THEN Result(c, m, "crashed", Error_NONE, called)
    ELSE
    LET switchHeader == IF c.switchHeader = NULL THEN ub ELSE c.switchHeader
        addr == Address(key, Address_getPrefix(key), switchHeader.label)
    IN  IF ~sourceIsKeyAddress(addr, c.ip6Header)
        THEN Result(c, m, "done", Error_INVALID, called)
        ELSE IF isRouterTraffic(m, c.ip6Header)
        THEN LET r == incomingDHT(Message_shift(m, -Headers_UDPHeader_SIZE), addr, c)
             IN  [r EXCEPT !.ev = called \o r.ev]
        ELSE IF c.routerIf
        THEN LET m1 == Message_shift(m, Headers_IP6Header_SIZE)
                 sizeDiff == Headers_CryptoAuth_SIZE
                 ip6 == [c.ip6Header EXCEPT !.payloadLength =
                            (c.ip6Header.payloadLength - sizeDiff) % 65536]
             IN  Result([c EXCEPT !.ip6Header = ip6], [m1 EXCEPT !.ip6 = ip6],
                        "done", Error_NONE,
                        called \o <<[type |-> "tun", ip6 |-> ip6,
                                     length |-> m1.length, content |-> m1.content]>>)
        ELSE Result(c, m, "done", Error_UNDELIVERABLE, called)

-----------------------------------------------------------------------------
(* Out of the content session *)

\* m is aligned on the beginning of the crypto header
outgoingFromMe(m, c, best) ==
    LET stashed == [c.ip6Header EXCEPT !.payloadLength = m.length % 65536]
        c1 == [c EXCEPT !.ip6Header = stashed]
        m1 == [Message_shift(m, Headers_IP6Header_SIZE) EXCEPT !.ip6 = stashed]
        m2 == IF isForMe(m1, c1)
              THEN [m1 EXCEPT !.ip6.destinationAddr = m1.ip6.sourceAddr,
                              !.ip6.sourceAddr = c1.myAddr.ip6]
              ELSE m1
    IN  decryptedIncoming(m2, c1, best)

-----------------------------------------------------------------------------
(* Out of the outer session *)

\* a receive path that takes a peer with any key
keyInRange_Any(address) == TRUE

\* the address of the peer's key is in fc00::/8
keyInRange(address) == address.ip6[1] = FC

receivedFromCryptoAuth(m, c, best) ==
    LET key == CryptoAuth_getHerPublicKey(c.herPublicKey, c.ifMap)
        address == Address(key, Address_getPrefix(key), c.switchHeader.label)
        called == <<[type |-> "receivedFromCryptoAuth", key |-> key,
                     ip6 |-> m.ip6, length |-> m.length]>>
    IN  IF ~keyInRange(address)
        THEN Result(c, m, "done", Error_NONE, called)
        ELSE IF validIP6(m)
        THEN LET r == decryptedIncoming(m, c, best)
             IN  [r EXCEPT !.ev =
                    called \o <<[type |-> "addNode", address |-> address]>> \o r.ev]
        ELSE Result(c, m, "done", Error_INVALID, called)

-----------------------------------------------------------------------------
(* Entry points *)

MessageType_CONTROL == "CONTROL"
MessageType_DATA == "DATA"
Control_ERROR == "ERROR"
Error_MALFORMED_ADDRESS == 1
Error_FLOOD == 2

\* a 32 bit field of the wire, <<first byte, ..., last byte>>, read by the host
\* (little-endian) as an integer
HostRead32(bytes) ==
    bytes[1] + 256 * bytes[2] + 65536 * bytes[3] + 16777216 * bytes[4]

\* the four bytes that carry v in network order
BigEndian32(v) ==
    <<(v \div 16777216) % 256, (v \div 65536) % 256, (v \div 256) % 256, v % 256>>

\* byte swap of a 16 bit value on a little-endian host
Endian_bigEndianToHost16(x) == (x % 256) * 256 + ((x \div 256) % 256)

Frame(label, messageType, controlType, errorType, causeLabel) ==
    [label |-> label, messageType |-> messageType, controlType |-> controlType,
     errorType |-> errorType, causeLabel |-> causeLabel]

DataFrames == {Frame(l, MessageType_DATA, "NONE", BigEndian32(0), l) : l \in Labels}

ControlFrames ==
    {Frame(l, MessageType_CONTROL, t, BigEndian32(e), cl) :
        l \in Labels, t \in {Control_ERROR, "PING"},
        e \in {Error_MALFORMED_ADDRESS, Error_FLOOD, 65536}, cl \in Labels}

Headers_getMessageType(frame) == frame.messageType

\* a receive path that takes every frame for data
isControl_Never(frame) == FALSE

\* the switch header says the frame is a control frame
isControl(frame) == Headers_getMessageType(frame) = MessageType_CONTROL

\* a receive path that keeps the label as the fabric delivered it
sourceLabel_AsDelivered(frame) == frame.label

\* the label comes in reversed; reversing it yields the source's label
sourceLabel(frame) == Bits_bitReverse64(frame.label)

incomingFromSwitch(frame, c) ==
    LET switchHeader == [label |-> sourceLabel(frame)]
        arrived == <<[type |-> "incomingFromSwitch", label |-> frame.label,
                      frame |-> frame]>>
    IN  IF isControl(frame)
        THEN IF /\ frame.controlType = Control_ERROR
                /\ frame.causeLabel = switchHeader.label
                /\ HostRead32(frame.errorType)
                     = Endian_bigEndianToHost16(Error_MALFORMED_ADDRESS)
             THEN Result(c, NoMessage, "done", Error_NONE,
                         arrived \o <<[type |-> "brokenPath",
                                       label |-> switchHeader.label]>>)
             ELSE Result(c, NoMessage, "done", Error_NONE, arrived)
        ELSE
        LET c1 == [c EXCEPT !.switchHeader = switchHeader]
            got == getCaSession(switchHeader, ZeroKey, c1)
            c2 == [got.c EXCEPT !.herPublicKey = got.index]
        IN  Result(c2, NoMessage, "outerRecv", Error_NONE,
                   arrived \o <<[type |-> "outerReceive",
                                 session |-> c2.ifMap[got.index].id,
                                 label |-> switchHeader.label]>>)

\* an ingress that lets any source in
sourceIsMe_Unchecked(m, c) == TRUE

\* only this node's address may be used as the source
sourceIsMe(m, c) == m.ip6.sourceAddr = c.myAddr.ip6

ip6FromTun(m, c) ==
    LET called == <<[type |-> "ip6FromTun", ip6 |-> m.ip6, length |-> m.length]>>
    IN
    IF ~validIP6(m)
    THEN Result(c, m, "done", Error_INVALID, called)
    ELSE IF ~sourceIsMe(m, c)
    THEN Result(c, m, "done", Error_INVALID, called)
    ELSE Result([c EXCEPT !.ip6Header = m.ip6, !.switchHeader = [label |-> {}]],
                Message_shift(m, -Headers_IP6Header_SIZE),
                "innerSend", Error_NONE,
                called \o <<[type |-> "contentSend", ip6 |-> m.ip6]>>)

\* the UDP header put in front of n bytes of a DHT message
dhtUdpHeader(n) == Content(0, n % 65536, 0, n)

\* a DHT message that starts with one hop more
dhtIp6Header_TwoHops(from, to) == IP6Header(from, to, DHT_HOP_LIMIT + 1, UDP, 0)

\* the ip6 header of a DHT message from `from' to `to'
dhtIp6Header(from, to) == IP6Header(from, to, DHT_HOP_LIMIT, UDP, 0)

handleOutgoing(n, address, c) ==
    LET content == dhtUdpHeader(n)
        header == dhtIp6Header(c.myAddr.ip6, address.ip6)
    IN  Result([c EXCEPT !.ip6Header = header, !.forwardTo = address,
                         !.switchHeader = NULL],
               Message(header, n + Headers_UDPHeader_SIZE, content),
               "innerSend", Error_NONE,
               <<[type |-> "handleOutgoing", n |-> n, address |-> address],
                 [type |-> "contentSend", ip6 |-> header]>>)

\* value the entry point of the current invocation returns to its caller
EntryReturn == IF entry = "tun" THEN outcome ELSE Error_NONE

-----------------------------------------------------------------------------
(* Inputs *)

TunPackets ==
    {Message(IP6Header(x[1], x[2], h, nh, Headers_UDPHeader_SIZE + n + x[3]),
             Headers_IP6Header_SIZE + Headers_UDPHeader_SIZE + n,
             Content(ports, n, 0, n)) :
        x \in {y \in SourceAddrs \X DestAddrs \X {0, 1} : Defects(y[1], y[2], y[3]) <= 1},
        h \in HopLimits, nh \in {UDP, 6}, n \in ContentLens, ports \in {0, 1}}

\* what the content session may find behind its header
Contents(n) == {Content(ports, len, 0, n) : ports \in {0, 1}, len \in {n, n + 1}}

AllContents == UNION {Contents(n) : n \in ContentLens}

\* peer keys a content session may be bound to
ContentKeys == {"KMe", "KA"}

\* nodes the DHT may address a message to
DhtTargets ==
    {Address(k, Address_getPrefix(k), {63}) : k \in Keys}
    \cup {Address("KB", Address_getPrefix("KB"), {0})}

\* nodes RouterModule_getBest may return
BestNodes == {a \in NodeAddresses : a.key \in {"KA", "KB"}} \cup {NULL}

\* length of a reply the content session emits on its own
ReplyLength == Headers_CryptoAuth_SIZE + Headers_UDPHeader_SIZE

Replies == Len(SelectSeq(events, LAMBDA e : e.type = "reply"))

-----------------------------------------------------------------------------
(* Actions *)

Apply(r) ==
    /\ context' = r.c
    /\ message' = r.m
    /\ pc' = r.pc
    /\ outcome' = r.outcome
    /\ events' = events \o r.ev

\* RouterModule_getBest answers only where the handler asks: the answers to
\* try are those of BestNodes if the handler, told NULL, has asked
Asked(r) == \E i \in 1..Len(r.ev) : r.ev[i].type = "getBest"
Answers(r) == IF Asked(r) THEN BestNodes ELSE {NULL}

Init ==
    /\ context \in
         {[myAddr |-> Address(MyKey, Address_getPrefix(MyKey), {}),
           routerIf |-> tun, ifMap |-> <<>>, switchHeader |-> Dangling,
           ip6Header |-> Dangling, herPublicKey |-> 0, forwardTo |-> NULL,
           contentSession |-> NULL] : tun \in BOOLEAN}
    /\ message = NoMessage
    /\ pc = "idle"
    /\ entry = "none"
    /\ outcome = Error_NONE
    /\ events = <<>>

IncomingFromSwitch(frame) ==
    /\ pc = "idle"
    /\ entry' = "switch"
    /\ \E r \in {incomingFromSwitch(frame, context)} : Apply(r)

Ip6FromTun(m) ==
    /\ pc = "idle"
    /\ entry' = "tun"
    /\ \E r \in {ip6FromTun(m, context)} : Apply(r)

HandleOutgoing(n, address) ==
    /\ pc = "idle"
    /\ entry' = "dht"
    /\ \E r \in {handleOutgoing(n, address, context)} : Apply(r)

\* the outer session authenticates the frame as coming from the holder of key k
\* and hands the decrypted packet m up
ReceivedFromCryptoAuth(k, m) ==
    /\ pc = "outerRecv"
    /\ CryptoAuth_getHerPublicKey(context.herPublicKey, context.ifMap) \in {ZeroKey, k}
    /\ LET c == [context EXCEPT !.ifMap[context.herPublicKey].herPublicKey = k]
       IN  \E r0 \in {receivedFromCryptoAuth(m, c, NULL)} :
           \E best \in Answers(r0) :
           \E r \in {IF best = NULL THEN r0 ELSE receivedFromCryptoAuth(m, c, best)} :
              Apply(r)
    /\ UNCHANGED entry

\* the outer session answers the frame with a packet of its own
OuterSessionReplies ==
    /\ pc = "outerRecv"
    /\ Apply(Result(context, NoMessage, "done", Error_NONE,
                    <<[type |-> "handshake"],
                      sendToSwitchFromCryptoAuth(
                          Message(NULL, Headers_CryptoAuth_SIZE, Opaque), context)>>))
    /\ UNCHANGED entry

\* the outer session drops the frame
OuterSessionDrops ==
    /\ pc = "outerRecv"
    /\ Apply(Result(context, NoMessage, "done", Error_NONE, <<>>))
    /\ UNCHANGED entry

\* the content session decrypts the message and hands the content up
\* A message this node encrypted itself (its content is known) decrypts to
\* that content under this node's own key; so does every message of an
\* invocation that did not start at the fabric, and every reply of a session
\* of this node.
IncomingForMe(key, content, ub) ==
    /\ pc = "innerRecv"
    /\ (entry # "switch" \/ Replies > 0) => key = MyKey
    /\ message.length >= Headers_CryptoAuth_SIZE + Headers_UDPHeader_SIZE
    /\ ub # NULL => context.switchHeader = NULL
    /\ LET n == message.length - Headers_CryptoAuth_SIZE - Headers_UDPHeader_SIZE
       IN  /\ IF message.content = Opaque
              THEN content \in Contents(n)
              ELSE content = message.content /\ key = MyKey
           /\ \E r \in {incomingForMe(
                            [Message_shift(message, -Headers_CryptoAuth_SIZE)
                               EXCEPT !.content = content], key, context, ub)} :
                 Apply(r)
    /\ UNCHANGED entry

\* the content session emits: the encrypted message it was given to send, or
\* a reply of its own to the message it was given to decrypt
OutgoingFromMe ==
    /\ pc \in {"innerSend", "innerRecv"}
    /\ pc = "innerRecv" => Replies < MaxInner
    /\ LET m == IF pc = "innerSend"
                THEN Message_shift(message, Headers_CryptoAuth_SIZE)
                ELSE Message(message.ip6, ReplyLength, Opaque)
           how == <<[type |-> IF pc = "innerSend" THEN "encrypted" ELSE "reply",
                     ip6 |-> context.ip6Header]>>
       IN  \E r0 \in {outgoingFromMe(m, context, NULL)} :
           \E best \in Answers(r0) :
           \E r \in {IF best = NULL THEN r0 ELSE outgoingFromMe(m, context, best)} :
              Apply([r EXCEPT !.ev = how \o r.ev])
    /\ UNCHANGED entry

\* the content session neither delivers nor emits
ContentSessionDrops ==
    /\ pc \in {"innerSend", "innerRecv"}
    /\ Apply(Result(context, message, "done", Error_SESSION, <<>>))
    /\ UNCHANGED entry

\* The entry point returns to the event loop.  ip6Header and switchHeader
\* point into the message buffer or a finished stack frame; herPublicKey and
\* contentSession are written by every path before they are read.
Return ==
    /\ pc = "done"
    /\ context' = [context EXCEPT !.switchHeader = Dangling, !.ip6Header = Dangling,
                                  !.herPublicKey = 0, !.contentSession = NULL]
    /\ message' = NoMessage
    /\ pc' = "idle"
    /\ entry' = "none"
    /\ outcome' = Error_NONE
    /\ events' = <<>>

Next ==
    \/ \E frame \in DataFrames \cup ControlFrames : IncomingFromSwitch(frame)
    \/ \E m \in TunPackets : Ip6FromTun(m)
    \/ \E n \in ContentLens, address \in DhtTargets : HandleOutgoing(n, address)
    \/ \E k \in PeerKeys, m \in WirePackets : ReceivedFromCryptoAuth(k, m)
    \/ OuterSessionReplies
    \/ OuterSessionDrops
    \/ \E key \in ContentKeys, content \in AllContents,
         ub \in {NULL} \cup {[label |-> l] : l \in Labels} :
          IncomingForMe(key, content, ub)
    \/ OutgoingFromMe
    \/ ContentSessionDrops
    \/ Return

Spec == Init /\ [][Next]_vars

-----------------------------------------------------------------------------
(* Reading the trace of an invocation *)

EventsOf(t) == {i \in 1..Len(events) : events[i].type = t}
Happened(t) == EventsOf(t) # {}
Me == context.myAddr.ip6

\* a well-formed header of the network (spec, data model, invariant 1)
WellFormed(e) ==
    /\ e.ip6.sourceAddr[1] = FC
    /\ e.ip6.destinationAddr[1] = FC
    /\ e.ip6.payloadLength = e.length - Headers_IP6Header_SIZE

\* the last entry of decryptedIncoming before event j
Entered(i, j) ==
    /\ i \in EventsOf("decryptedIncoming")
    /\ i < j
    /\ \A k \in EventsOf("decryptedIncoming") : k < j => k <= i

-----------------------------------------------------------------------------
(* Claims *)

\* C1 (address binding on local delivery): when the content session hands a
\* packet for this node to incomingForMe and the packet's ip6 source differs
\* from the address derived from the session's peer key, incomingForMe returns
\* INVALID and nothing is delivered to the TUN or to the DHT registry.
C1_AddressBinding ==
    \A i \in EventsOf("incomingForMe") :
        Address_getPrefix(events[i].key) # events[i].ip6.sourceAddr
        => /\ pc = "done"
           /\ outcome = Error_INVALID
           /\ ~Happened("tun")
           /\ ~Happened("dht")

\* a router-to-router packet from a source that is not the session's peer
C1_Witness ==
    /\ pc = "done"
    /\ outcome = Error_INVALID
    /\ \E i \in EventsOf("incomingForMe") :
          /\ Address_getPrefix(events[i].key) # events[i].ip6.sourceAddr
          /\ events[i].ip6.hopLimit = 0
          /\ events[i].ip6.nextHeader = UDP
          /\ events[i].content.sourceAndDestPorts = 0

\* C2 as stated: a packet that arrives through an outer session with peer key
\* K and carries an ip6 source other than the address derived from K is not
\* forwarded to the fabric, not delivered to the TUN, not handed to the DHT.
C2_OuterKeyBinding ==
    \A i \in EventsOf("receivedFromCryptoAuth") :
        (/\ events[i].ip6.sourceAddr # Address_getPrefix(events[i].key)
         /\ ~Happened("reply"))
        => /\ ~Happened("sendToRouter")
           /\ ~Happened("tun")
           /\ ~Happened("dht")

\* C2 amended: the binding is to the key of the content session.  Whatever is
\* delivered to the TUN or handed to the DHT registry came out of a content
\* session whose peer key derives to the packet's ip6 source, and the DHT is
\* told that key and that address.
C2_ContentKeyBinding ==
    /\ \A i \in EventsOf("tun") \cup EventsOf("dht") :
          \E j \in EventsOf("incomingForMe") :
             /\ j < i
             /\ Address_getPrefix(events[j].key) = events[i].ip6.sourceAddr
    /\ \A i \in EventsOf("dht") :
          /\ events[i].address.ip6 = events[i].ip6.sourceAddr
          /\ Address_getPrefix(events[i].address.key) = events[i].address.ip6

\* a packet relayed by a neighbour other than its source is delivered
C2_Witness ==
    /\ pc = "done"
    /\ Happened("tun")
    /\ \E i \in EventsOf("receivedFromCryptoAuth") :
          events[i].ip6.sourceAddr # Address_getPrefix(events[i].key)

C4_HopLimit ==
    /\ \A j \in EventsOf("sendToRouter") :
          \E i \in 1..Len(events) :
             /\ Entered(i, j)
             /\ events[i].ip6.destinationAddr # Me
             /\ events[i].ip6.hopLimit > 0
             /\ events[j].ip6.hopLimit = events[i].ip6.hopLimit - 1
    /\ \A i \in EventsOf("decryptedIncoming") :
          (/\ WellFormed(events[i])
           /\ events[i].ip6.destinationAddr # Me
           /\ events[i].ip6.hopLimit = 0)
          => /\ pc = "done"
             /\ outcome = Error_UNDELIVERABLE
             /\ \A j \in EventsOf("sendToRouter") \cup EventsOf("switch") : j < i
    /\ \A i \in EventsOf("decryptedIncoming") :
          (WellFormed(events[i]) /\ events[i].ip6.destinationAddr = Me)
          => /\ i < Len(events)
             /\ events[i + 1].type = "contentReceive"

\* a packet from the fabric for another node is forwarded with a lower limit
C4_Witness ==
    /\ pc = "done"
    /\ entry = "switch"
    /\ ~Happened("reply")
    /\ \E j \in EventsOf("sendToRouter") : events[j].ip6.hopLimit = MaxHop - 1

\* C5 as stated (error codes reach the caller): when an invocation that began
\* at the fabric or at the TUN ends in INVALID or UNDELIVERABLE, or under an
\* outer key whose address does not begin with 0xFC, the entry point returns
\* that error; it returns NONE only when the packet was handled normally.
C5_ErrorsReachCaller ==
    (pc = "done" /\ entry \in {"switch", "tun"})
    => /\ outcome \in {Error_INVALID, Error_UNDELIVERABLE}
             => EntryReturn = outcome
       /\ \A i \in EventsOf("receivedFromCryptoAuth") :
             Address_getPrefix(events[i].key)[1] # FC
             => EntryReturn = Error_INVALID
       /\ EntryReturn = Error_NONE => outcome = Error_NONE

\* The detector of router-to-router traffic, read off the trace: event i is an
\* entry of incomingForMe.
Detected(i) ==
    /\ events[i].ip6.nextHeader = UDP
    /\ events[i].ip6.hopLimit = 0
    /\ events[i].content.sourceAndDestPorts = 0
    /\ events[i].content.length = events[i].length - Headers_UDPHeader_SIZE

\* C6 (router traffic is not forwarded): a packet that satisfies the detector
\* of router-to-router traffic produces no frame to the fabric and no TUN
\* delivery after it reached incomingForMe, and is handed to the DHT registry
\* when its source is the address of the session's key; nothing else is handed
\* to the DHT registry; a packet that enters the dispatcher with hop limit 0
\* is never handed to sendToRouter.
C6_RouterTraffic ==
    /\ \A i \in EventsOf("incomingForMe") :
          Detected(i)
          => /\ \A j \in EventsOf("switch") \cup EventsOf("sendToRouter")
                        \cup EventsOf("tun") : j < i
             /\ (pc = "done"
                 /\ Address_getPrefix(events[i].key) = events[i].ip6.sourceAddr)
                => /\ i < Len(events)
                   /\ events[i + 1].type = "dht"
                   /\ outcome = Error_NONE
    /\ \A j \in EventsOf("dht") :
          /\ j > 1
          /\ events[j - 1].type = "incomingForMe"
          /\ Detected(j - 1)
    /\ \A j \in EventsOf("sendToRouter") :
          \E i \in 1..Len(events) :
             Entered(i, j) /\ events[i].ip6.hopLimit # 0

\* router-to-router traffic from the fabric is handed to the DHT registry
C6_Witness ==
    /\ pc = "done"
    /\ entry = "switch"
    /\ Happened("dht")
    /\ ~Happened("switch")
    /\ ~Happened("tun")

\* C7 as stated (self-echo): whenever the content session answers a packet for
\* this node with a handshake reply, a packet from this node to the source of
\* the packet that triggered the reply is sent to a router, whatever the hop
\* limit of the triggering packet (a reply to this node itself and a reply for
\* which no next hop is known excepted).
C7_SelfEcho ==
    pc = "done"
    => \A i \in EventsOf("reply") :
          (/\ events[i].ip6.sourceAddr # Me
           /\ ~\E g \in EventsOf("getBest") : g > i /\ events[g].nextBest = NULL)
          => \E j \in EventsOf("sendToRouter") :
                /\ j > i
                /\ events[j].ip6.sourceAddr = Me
                /\ events[j].ip6.destinationAddr = events[i].ip6.sourceAddr

\* The table of outer sessions, read off the state.
SessionLabels(c) == {c.ifMap[k].label : k \in 1..Len(c.ifMap)}

\* no label has two sessions and no session is entered twice
OneSessionPerLabel ==
    \A i, j \in 1..Len(context.ifMap) :
        i # j => /\ context.ifMap[i].label # context.ifMap[j].label
                 /\ context.ifMap[i].id # context.ifMap[j].id

\* every use of an outer session in this invocation, inbound or outbound, is a
\* use of the table's session for the label
UsesTheSessionOfTheLabel ==
    \A i \in EventsOf("outerReceive") \cup EventsOf("outerSend") :
        \E k \in 1..Len(context.ifMap) :
            /\ context.ifMap[k].label = events[i].label
            /\ context.ifMap[k].id = events[i].session

\* labels whose session the step uses
UsedLabels ==
    IF Len(events') > Len(events)
    THEN {events'[i].label :
             i \in {j \in (Len(events) + 1)..Len(events') :
                       events'[j].type \in {"outerReceive", "outerSend"}}}
    ELSE {}

\* sessions stay where they are, and a session is made exactly for a label
\* that is used and has none
CreatedOnFirstUse ==
    /\ Len(context'.ifMap) >= Len(context.ifMap)
    /\ \A k \in 1..Len(context.ifMap) :
          /\ context'.ifMap[k].label = context.ifMap[k].label
          /\ context'.ifMap[k].id = context.ifMap[k].id
    /\ SessionLabels(context') = SessionLabels(context) \cup UsedLabels

\* C8 (session caching): all uses of one label, inbound (the bit-reversed
\* label of the frame) and outbound (the label of the destination address), go
\* to the same outer session; the table never holds two sessions for a label;
\* a session is created exactly when a label is used for the first time, and
\* stays.
C8_SessionCaching ==
    /\ [](OneSessionPerLabel /\ UsesTheSessionOfTheLabel)
    /\ [][CreatedOnFirstUse]_vars

\* the session made for a frame from a peer is the one used to send to the
\* address announced for that peer
C8_Witness ==
    \E i \in EventsOf("outerReceive"), a \in EventsOf("addNode"),
       j \in EventsOf("outerSend") :
        /\ i < a /\ a < j
        /\ events[a].address.networkAddress = events[i].label
        /\ events[j].label = events[a].address.networkAddress
        /\ events[j].session = events[i].session

\* C9 as stated (label round trip): the label handed back to the fabric in the
\* outer session's handshake reply to a frame is the label the fabric delivered
\* the frame with.
C9_LabelAsDelivered ==
    Happened("handshake")
    => \A i \in EventsOf("incomingFromSwitch"), j \in EventsOf("switch") :
          events[j].label = events[i].label

\* C9 amended: the label handed back to the fabric is the bit-reverse of the
\* label the frame was delivered with: in the outer session's handshake reply,
\* and in the address announced for the peer; a send to an address is handed to
\* the fabric with the label of that address.
C9_LabelReversed ==
    /\ Happened("handshake")
       => \A i \in EventsOf("incomingFromSwitch"), j \in EventsOf("switch") :
             events[j].label = Bits_bitReverse64(events[i].label)
    /\ \A i \in EventsOf("incomingFromSwitch"), a \in EventsOf("addNode") :
          events[a].address.networkAddress = Bits_bitReverse64(events[i].label)
    /\ \A i \in EventsOf("sendToRouter") :
          /\ i + 2 <= Len(events)
          /\ events[i + 2].type = "switch"
          /\ events[i + 2].label = events[i].sendTo.networkAddress

\* a frame is answered by the outer session, or forwarded to the address
\* announced for its sender
C9_Witness ==
    /\ pc = "done"
    /\ Happened("switch")
    /\ \/ Happened("handshake")
       \/ \E a \in EventsOf("addNode"), i \in EventsOf("sendToRouter") :
             a < i /\ events[i].sendTo.networkAddress
                        = events[a].address.networkAddress

\* the DHT messages that go out: to an address of the network other than this
\* node's, when the content session emits
DhtGoesOut ==
    /\ entry = "dht"
    /\ pc = "done"
    /\ Happened("encrypted")
    /\ events[1].address.ip6[1] = FC
    /\ events[1].address.ip6 # Me

\* C10 as stated (DHT query out): a DHT message that goes out is exactly one
\* frame handed to the fabric, which carries hop limit 1.
C10_OneFrameHopLimitOne ==
    DhtGoesOut
    => /\ Cardinality(EventsOf("switch")) = 1
       /\ \A j \in EventsOf("switch") : events[j].ip6.hopLimit = DHT_HOP_LIMIT

\* C10 amended: a call of handleOutgoing hands at most one frame to the
\* fabric; when the target's address begins with 0xFC and is not this node's
\* and the content session emits, it hands exactly one, labelled with the
\* target's label, which carries IP6(source = self, destination = target.ip6,
\* nextHeader = 17, hopLimit = 0) with the payload length of what follows,
\* then UDP(ports 0, length n, checksum 0) and the n bytes.
C10_DhtQueryOut ==
    entry = "dht"
    => /\ Cardinality(EventsOf("switch")) <= 1
       /\ DhtGoesOut
          => /\ Cardinality(EventsOf("switch")) = 1
             /\ \A j \in EventsOf("switch") :
                   /\ events[j].label = events[1].address.networkAddress
                   /\ events[j].ip6 =
                        IP6Header(Me, events[1].address.ip6,
                                  DHT_HOP_LIMIT - 1, UDP,
                                  Headers_CryptoAuth_SIZE
                                    + Headers_UDPHeader_SIZE + events[1].n)
                   /\ events[j].length = Headers_IP6Header_SIZE
                                           + events[j].ip6.payloadLength
                   /\ events[j].content =
                        Content(0, events[1].n, 0, events[1].n)

\* a DHT message has gone out to its target
C10_Witness ==
    /\ DhtGoesOut
    /\ \E j \in EventsOf("switch") :
          /\ events[j].ip6.hopLimit = 0
          /\ events[j].ip6.destinationAddr = events[1].address.ip6

\* The frame of the invocation is a control frame of type ERROR that carries
\* MALFORMED_ADDRESS in network order and whose cause is the label of its own
\* header, as incomingFromSwitch reads it (bit-reversed).
MalformedAddressError(i) ==
    /\ events[i].frame.messageType = MessageType_CONTROL
    /\ events[i].frame.controlType = Control_ERROR
    /\ events[i].frame.errorType = BigEndian32(Error_MALFORMED_ADDRESS)
    /\ events[i].frame.causeLabel = Bits_bitReverse64(events[i].frame.label)

\* C11 as stated (control ERROR): a control frame of type ERROR with error
\* type MALFORMED_ADDRESS, big-endian on the wire, and a cause label equal to
\* the frame's label makes RouterModule_brokenPath be called exactly once with
\* that label and produces no frame; with a different cause label brokenPath
\* is not called.
C11_BrokenPath ==
    pc = "done"
    => \A i \in EventsOf("incomingFromSwitch") :
          /\ MalformedAddressError(i)
             => /\ Cardinality(EventsOf("brokenPath")) = 1
                /\ \A j \in EventsOf("brokenPath") :
                      events[j].label = Bits_bitReverse64(events[i].frame.label)
                /\ ~Happened("switch")
          /\ (/\ events[i].frame.messageType = MessageType_CONTROL
              /\ events[i].frame.causeLabel
                    # Bits_bitReverse64(events[i].frame.label))
             => ~Happened("brokenPath")

\* the step is an invocation of incomingFromSwitch with a control frame
ControlFrameArrives ==
    /\ pc = "idle"
    /\ events' # <<>>
    /\ events'[1].type = "incomingFromSwitch"
    /\ events'[1].frame.messageType = MessageType_CONTROL

\* C12 (control frames are inert): a frame whose message type is CONTROL,
\* whatever its control type, returns at once: the context, with the session
\* table, is left as it was, no session is looked up or invoked, no frame is
\* produced, nothing reaches the TUN or the DHT registry; the only call there
\* may be is RouterModule_brokenPath.
C12_ControlInert ==
    [][ControlFrameArrives
        => /\ context' = context
           /\ pc' = "done"
           /\ message' = NoMessage
           /\ outcome' = Error_NONE
           /\ \A i \in 2..Len(events') : events'[i].type = "brokenPath"]_vars

\* a control frame of a type other than ERROR has arrived at a node that has
\* outer sessions
C12_Witness ==
    /\ pc = "done"
    /\ events[1].type = "incomingFromSwitch"
    /\ events[1].frame.messageType = MessageType_CONTROL
    /\ events[1].frame.controlType # Control_ERROR
    /\ Len(events) = 1
    /\ Len(context.ifMap) > 0

\* the step is an invocation of ip6FromTun
TunPacketArrives ==
    /\ pc = "idle"
    /\ events' # <<>>
    /\ events'[1].type = "ip6FromTun"

\* C13 (TUN ingress validation): a packet from the TUN is passed to the
\* content session only if it is well formed and its source is this node's
\* address; otherwise ip6FromTun returns INVALID, nothing is sent, and the
\* context (ip6Header, switchHeader, forwardTo, the session table) is left as
\* it was.
C13_TunIngress ==
    /\ [][TunPacketArrives
          => IF WellFormed(events'[1]) /\ events'[1].ip6.sourceAddr = Me
             THEN /\ pc' = "innerSend"
                  /\ Len(events') = 2
                  /\ events'[2].type = "contentSend"
                  /\ events'[2].ip6 = events'[1].ip6
             ELSE /\ context' = context
                  /\ pc' = "done"
                  /\ outcome' = Error_INVALID
                  /\ Len(events') = 1]_vars
    /\ []((pc = "done" /\ entry = "tun" /\ ~Happened("contentSend"))
            => /\ EntryReturn = Error_INVALID
               /\ ~Happened("switch"))

\* a well-formed packet with another node's source is refused at a node that
\* has sessions and a pending forwardTo
C13_Witness ==
    /\ pc = "done"
    /\ entry = "tun"
    /\ outcome = Error_INVALID
    /\ WellFormed(events[1])
    /\ events[1].ip6.sourceAddr # Me
    /\ Len(context.ifMap) > 0
    /\ context.forwardTo # NULL

\* terminal actions of the invocation: a frame handed to the fabric, a
\* delivery to the TUN, a handoff to the DHT registry
Terminals == EventsOf("switch") \cup EventsOf("tun") \cup EventsOf("dht")

\* C14 (one packet in, at most one out): an invocation of an entry point makes
\* at most one terminal action (one frame to the fabric, one delivery to the
\* TUN or one handoff to the DHT registry), after which it is over; an
\* invocation that ends without one has dropped the packet.
C14_OneTerminal ==
    /\ Cardinality(Terminals) <= 1
    /\ \A i \in Terminals : i = Len(events) /\ pc = "done"
    /\ pc \in {"idle", "outerRecv", "innerSend", "innerRecv"} => Terminals = {}

\* the content session was entered twice (a receive it answered with a reply)
\* and one frame left
C14_Witness ==
    /\ pc = "done"
    /\ Happened("reply")
    /\ Cardinality(EventsOf("switch")) = 1
    /\ Cardinality(Terminals) = 1

\* The packet sent to a router by call j goes to the node it is addressed to,
\* and that node's detector, run on the header and the content it was sent
\* once its content session has taken its header off, says router traffic.
ArrivesAsRouterTraffic(j) ==
    /\ events[j].sendTo.ip6 = events[j].ip6.destinationAddr
    /\ events[j + 2].type = "switch"
    /\ events[j + 2].content # Opaque
    /\ isRouterTraffic(
          Message(events[j + 2].ip6,
                  events[j + 2].length - Headers_IP6Header_SIZE
                                       - Headers_CryptoAuth_SIZE,
                  events[j + 2].content),
          events[j + 2].ip6)

\* C15 as stated (the marker is distinct from application traffic): no packet
\* injected through the TUN, whatever hop limit ip6FromTun accepted it with,
\* is classified as router-to-router traffic and handed to the DHT registry at
\* the node it is addressed to, be that this node or the node it is sent to.
C15_MarkerDistinct ==
    entry = "tun"
    => /\ ~Happened("dht")
       /\ \A j \in EventsOf("sendToRouter") : ~ArrivesAsRouterTraffic(j)

\* call i of incomingForMe got past the address check
PassedBinding(i) ==
    /\ pc = "done"
    /\ Address_getPrefix(events[i].key) = events[i].ip6.sourceAddr

C17_PeerAnnouncement ==
    /\ \A a \in EventsOf("addNode") :
          /\ a > 1
          /\ events[a - 1].type = "receivedFromCryptoAuth"
          /\ WellFormed(events[a - 1])
          /\ events[a].address.key = events[a - 1].key
          /\ events[a].address.ip6 = Address_getPrefix(events[a - 1].key)
          /\ events[a].address.ip6[1] = FC
          /\ events[1].type = "incomingFromSwitch"
          /\ events[a].address.networkAddress = Bits_bitReverse64(events[1].label)
    /\ \A r \in EventsOf("receivedFromCryptoAuth") :
          IF Address_getPrefix(events[r].key)[1] # FC
          THEN Len(events) = r /\ pc = "done"
          ELSE IF WellFormed(events[r])
          THEN /\ Len(events) > r + 1
               /\ events[r + 1].type = "addNode"
               /\ events[r + 2].type = "decryptedIncoming"
          ELSE Len(events) = r /\ pc = "done" /\ outcome = Error_INVALID

\* a peer is announced for a packet that is then dropped
C17_Witness ==
    /\ pc = "done"
    /\ outcome = Error_UNDELIVERABLE
    /\ ~Happened("getBest")
    /\ \E a \in EventsOf("addNode") :
          events[a].address.networkAddress = Bits_bitReverse64(events[1].label)

-----------------------------------------------------------------------------
(* A packet on its way: the node of the model injects a packet from its TUN, *)
(* and every frame a node hands to the fabric is carried to the router it    *)
(* was sent to, which runs the same code.  `context' is the context of the   *)
(* node that holds the packet and `events' the trace of the whole journey.   *)

\* hop limit of the packets injected (scenario S2 of the specification)
TunHopLimit == 64
\* frames carried from node to node on one journey
MaxCarried == 2

\* packets an application at this node sends to the node of key KB
PathPackets ==
    {Message(IP6Header(Address_getPrefix(MyKey), Address_getPrefix("KB"),
                       h, nh, Headers_UDPHeader_SIZE + n),
             Headers_IP6Header_SIZE + Headers_UDPHeader_SIZE + n,
             Content(ports, n, 0, n)) :
        h \in {TunHopLimit, 1, 0}, nh \in {UDP, 6}, n \in ContentLens,
        ports \in {0, 1}}

\* the context of node `address' when a frame from the node of key `from'
\* has come out of its outer session: Ducttape_register, then
\* incomingFromSwitch up to the call of the session
NodeContext(address, from, label) ==
    [myAddr |-> Address(address.key, address.ip6, {}),
     routerIf |-> TRUE,
     ifMap |-> <<[label |-> label, id |-> 1, herPublicKey |-> from]>>,
     switchHeader |-> [label |-> label],
     ip6Header |-> Dangling,
     herPublicKey |-> 1,
     forwardTo |-> NULL,
     contentSession |-> NULL]

Carried == Cardinality(EventsOf("switch"))

\* the frame this node handed to the fabric arrives at the router it was sent
\* to, whose outer session hands the packet to receivedFromCryptoAuth
Carry(label) ==
    /\ pc = "done"
    /\ Len(events) > 2
    /\ events[Len(events)].type = "switch"
    /\ events[Len(events) - 2].type = "sendToRouter"
    /\ Carried <= MaxCarried
    /\ LET frame == events[Len(events)]
           to == events[Len(events) - 2].sendTo
           c == NodeContext(to, context.myAddr.key, label)
           m == Message(frame.ip6, frame.length, frame.content)
       IN  \E r0 \in {receivedFromCryptoAuth(m, c, NULL)} :
           \E best \in Answers(r0) :
           \E r \in {IF best = NULL THEN r0
                     ELSE receivedFromCryptoAuth(m, c, best)} :
               Apply(r)
    /\ UNCHANGED entry

\* the content session of the sender emits the encrypted packet
PathEncrypt == pc = "innerSend" /\ OutgoingFromMe

PathInit == Init /\ context.routerIf

PathNext ==
    \/ \E m \in PathPackets : Ip6FromTun(m)
    \/ PathEncrypt
    \/ \E label \in Labels : Carry(label)
    \/ \E content \in AllContents : IncomingForMe(MyKey, content, NULL)

PathSpec == PathInit /\ [][PathNext]_vars

\* The packet injected with hop limit TunHopLimit was delivered to a TUN.
Delivered(t) ==
    /\ events[t].type = "tun"
    /\ events[1].type = "ip6FromTun"
    /\ events[1].ip6.hopLimit = TunHopLimit

\* nodes between the one that injected the packet and the one that delivered
\* it: every node that sent the packet on, but the first
Forwarders == Cardinality(EventsOf("sendToRouter")) - 1

\* C18 as stated (end-to-end hop limit): a packet injected with hop limit 64
\* is seen at its final node with hop limit 64 - N, N the number of
\* intermediate forwarders, taken as 1 when there is none.
C18_HopLimitLessForwarders ==
    \A t \in 1..Len(events) :
        Delivered(t)
        => events[t].ip6.hopLimit
             = TunHopLimit - (IF Forwarders = 0 THEN 1 ELSE Forwarders)

\* C18 amended: the node that injects the packet decrements the hop limit
\* too, so the packet is seen at its final node with hop limit 64 - (N + 1),
\* N the number of intermediate forwarders: 63 when the path is direct.
C18_HopLimitEndToEnd ==
    \A t \in 1..Len(events) :
        Delivered(t) => events[t].ip6.hopLimit = TunHopLimit - (Forwarders + 1)

\* the packet was delivered after one intermediate forwarder
C18_Witness ==
    \E t \in 1..Len(events) :
        /\ Delivered(t)
        /\ Forwarders = 1
        /\ events[t].ip6.destinationAddr = Address_getPrefix("KB")

\* entry i of decryptedIncoming is for a packet the fabric delivered, which is
\* well formed, for another node, with hops left
ToBeForwarded(i) ==
    /\ entry = "switch"
    /\ pc = "done"
    /\ events[i].type = "decryptedIncoming"
    /\ events[i - 1].type = "addNode"
    /\ WellFormed(events[i])
    /\ events[i].ip6.destinationAddr # Me
    /\ events[i].ip6.hopLimit > 0

\* C19 as stated (forwarding uses the oracle): for a packet from the fabric
\* that is for another node and has hops left, whatever came before,
\* RouterModule_getBest is asked for the destination and the packet is sent to
\* the node it returns, in a frame with that node's label; when it returns
\* none nothing is sent and the outcome is UNDELIVERABLE.
C19_ForwardingUsesOracle ==
    \A i \in 2..Len(events) :
        ToBeForwarded(i)
        => /\ Len(events) > i
           /\ events[i + 1].type = "getBest"
           /\ events[i + 1].target = events[i].ip6.destinationAddr
           /\ IF events[i + 1].nextBest = NULL
              THEN /\ Len(events) = i + 1
                   /\ outcome = Error_UNDELIVERABLE
              ELSE /\ Len(events) = i + 4
                   /\ events[i + 2].type = "sendToRouter"
                   /\ events[i + 2].sendTo = events[i + 1].nextBest
                   /\ events[i + 4].type = "switch"
                   /\ events[i + 4].label = events[i + 1].nextBest.networkAddress

\* the step takes a packet of handleOutgoing through the forwarding step
DhtPacketForwarded ==
    /\ entry = "dht"
    /\ pc = "innerSend"
    /\ \E j \in (Len(events) + 1)..Len(events') : events'[j].type = "sendToRouter"

\* C20 (DHT outbound bypasses the oracle): a packet of handleOutgoing for
\* target T that reaches the forwarding step is sent to T without
\* RouterModule_getBest being asked: through the outer session of T's label,
\* which is created with T's key when the table has none for the label and is
\* the table's session otherwise, in a frame with T's label; forwardTo, which
\* held T, is NULL afterwards.
C20_DhtBypassesOracle ==
    [][DhtPacketForwarded
       => LET T == events[1].address
              n == Len(events')
              index == InterfaceMap_indexOf(T.networkAddress, context'.ifMap)
          IN  /\ context.forwardTo = T
              /\ context'.forwardTo = NULL
              /\ pc' = "done"
              /\ \A j \in 1..n : events'[j].type # "getBest"
              /\ events'[n - 2].type = "sendToRouter"
              /\ events'[n - 2].sendTo = T
              /\ events'[n - 1].type = "outerSend"
              /\ events'[n - 1].label = T.networkAddress
              /\ index > 0
              /\ events'[n - 1].session = context'.ifMap[index].id
              /\ events'[n].type = "switch"
              /\ events'[n].label = T.networkAddress
              /\ IF T.networkAddress \in SessionLabels(context)
                 THEN context'.ifMap = context.ifMap
                 ELSE /\ index = Len(context.ifMap) + 1
                      /\ context'.ifMap[index].herPublicKey = T.key
                      /\ SubSeq(context'.ifMap, 1, Len(context.ifMap))
                           = context.ifMap]_vars

\* a DHT message went out through a session created for it, at a node whose
\* router module was never asked
C20_Witness ==
    /\ entry = "dht"
    /\ pc = "done"
    /\ Happened("switch")
    /\ ~Happened("getBest")
    /\ context.forwardTo = NULL
    /\ \E j \in EventsOf("outerSend") :
          /\ events[j].session = Len(context.ifMap)
          /\ events[j].herPublicKey = events[1].address.key
          /\ Len(context.ifMap) > 1

\* a packet of handleOutgoing is between the content session and the
\* forwarding step
DhtPacketInFlight ==
    /\ entry = "dht"
    /\ pc = "innerSend"

\* C21 as stated (forwardTo is per-packet): whenever no packet is being
\* processed context.forwardTo is NULL, whatever the outcome of the
\* invocations before; it is not NULL only while a packet of handleOutgoing is
\* in flight.
C21_ForwardToPerPacket ==
    /\ pc = "idle" => context.forwardTo = NULL
    /\ context.forwardTo # NULL => DhtPacketInFlight

\* entries of the content session in the current invocation, to send or to
\* receive
InnerEntries == EventsOf("contentSend") \cup EventsOf("contentReceive")

\* calls of outgoingFromMe in the current invocation, each of which enters
\* decryptedIncoming
ReEntries == EventsOf("encrypted") \cup EventsOf("reply")

\* C22 as stated (bounded re-entry): while one packet is processed the content
\* session is entered at most twice and decryptedIncoming is entered through
\* outgoingFromMe at most once, whatever the content session answers and also
\* for packets from this node to itself; an invocation whose entries are so
\* bounded ends.
C22_BoundedReentry ==
    /\ Cardinality(InnerEntries) <= 2
    /\ Cardinality(ReEntries) <= 1

\* C23 as stated (outbound session key binding): whenever sendToRouter sends
\* a packet toward a node address with key K and label L, the outer session
\* that encrypts it is bound to peer key K, whatever packets came before and
\* however the session of L came to be in the table.
C23_OutboundKeyBinding ==
    \A j \in EventsOf("sendToRouter") :
        /\ Len(events) > j
        /\ events[j + 1].type = "outerSend"
        /\ events[j + 1].label = events[j].sendTo.networkAddress
        /\ events[j + 1].herPublicKey = events[j].sendTo.key

====
